---- MODULE Spec2Model ----
(***************************************************************************)
(* A model of celeri-server/request-logger (src/index.ts): the template    *)
(* compiler compileTemplate and the Formatter it returns, the duration     *)
(* formatter formatDuration, and the per-request lifecycle wiring of       *)
(* requestLogger.                                                          *)
(*                                                                         *)
(* A JavaScript string is a sequence of one-character strings; the value   *)
(* undefined is the one-element sequence UNDEFINED, which no string equals *)
(* (its element is not a single character).                                *)
(***************************************************************************)
EXTENDS Integers, Sequences, FiniteSets, TLC

\* ------------------------------------------------------------------------
\* JavaScript values
\* ------------------------------------------------------------------------

UNDEFINED == << "undefined" >>

\* if (x): undefined and the empty string are falsy
Truthy(x) == x # UNDEFINED /\ x # << >>

\* Array.prototype.join(''): undefined (and null) elements become ''
RECURSIVE Join(_)
Join(chunks) ==
    IF chunks = << >> THEN << >>
    ELSE (IF Head(chunks) = UNDEFINED THEN << >> ELSE Head(chunks)) \o Join(Tail(chunks))

DigitChar(d) == << "0", "1", "2", "3", "4", "5", "6", "7", "8", "9" >>[d + 1]

\* String(n) of a non-negative integer: its decimal digits
RECURSIVE NumberToString(_)
NumberToString(n) ==
    IF n < 10 THEN << DigitChar(n) >>
    ELSE NumberToString(n \div 10) \o << DigitChar(n % 10) >>

Range(seq) == { seq[k] : k \in 1..Len(seq) }

\* ------------------------------------------------------------------------
\* Token names
\* ------------------------------------------------------------------------

tStatusCode    == << "s","t","a","t","u","s","-","c","o","d","e" >>
tDuration      == << "d","u","r","a","t","i","o","n" >>
tProto         == << "p","r","o","t","o" >>
tMethod        == << "m","e","t","h","o","d" >>
tPath          == << "p","a","t","h" >>
tContentType   == << "c","o","n","t","e","n","t","-","t","y","p","e" >>
tContentLength == << "c","o","n","t","e","n","t","-","l","e","n","g","t","h" >>

standardTokens ==
    << tStatusCode, tDuration, tProto, tMethod, tPath, tContentType, tContentLength >>

\* names a caller registers in customTokens
tUser    == << "u","s","e","r" >>
tStrict  == << "s","t","r","i","c","t" >>
tMethods == << "m","e","t","h","o","d","s" >>
tPa      == << "p","a" >>

\* ------------------------------------------------------------------------
\* compileTemplate: the split on /(:(tok1|tok2|...))/g
\* ------------------------------------------------------------------------

IsPrefixAt(s, p, t) ==
    /\ p + Len(t) - 1 <= Len(s)
    /\ \A k \in 1..Len(t) : s[p + k - 1] = t[k]

\* The alternation is ordered: the first name of `tokens` that matches after
\* the colon at position p is the one the regular expression takes. 0: none.
MatchAt(s, p, tokens) ==
    IF s[p] # ":" THEN 0
    ELSE LET hits == { k \in 1..Len(tokens) : IsPrefixAt(s, p + 1, tokens[k]) }
         IN  IF hits = {} THEN 0
             ELSE CHOOSE k \in hits : \A j \in hits : k <= j

\* template.split(tokensRegex): with two capture groups the array is
\* literal, ":name", "name", literal, ":name", "name", ..., literal
RECURSIVE SplitFrom(_, _, _, _)
SplitFrom(s, tokens, p, from) ==
    IF p > Len(s) THEN << SubSeq(s, from, Len(s)) >>
    ELSE LET k == MatchAt(s, p, tokens)
         IN  IF k = 0 THEN SplitFrom(s, tokens, p + 1, from)
             ELSE LET next == p + 1 + Len(tokens[k])
                  IN  << SubSeq(s, from, p - 1), << ":" >> \o tokens[k], tokens[k] >>
                         \o SplitFrom(s, tokens, next, next)

Split(template, tokens) == SplitFrom(template, tokens, 1, 1)

\* initialSplit[i] with a 0-based index; undefined past the end
At(arr, i) == IF i < Len(arr) THEN arr[i + 1] ELSE UNDEFINED

\* for (let i = 0; i < initialSplit.length; i++) {
\*     templateChunks.push(initialSplit[i += 2]);
\*     if (initialSplit[i]) tokenList.push(initialSplit[i]);
\* }
RECURSIVE CompileLoop(_, _, _, _)
CompileLoop(initialSplit, i, chunks, tokens) ==
    IF i >= Len(initialSplit)
    THEN [templateChunks |-> chunks, tokenList |-> tokens]
    ELSE LET j == i + 2
             e == At(initialSplit, j)
         IN  CompileLoop(initialSplit, j + 1, Append(chunks, e),
                         IF Truthy(e) THEN Append(tokens, e) ELSE tokens)

\* tokens = standardTokens.slice(); tokens.push(...Object.keys(customTokens))
TokenNames(customKeys) == standardTokens \o customKeys

compileTemplate(template, customKeys) ==
    CompileLoop(Split(template, TokenNames(customKeys)), 0, << >>, << >>)

\* ------------------------------------------------------------------------
\* The Formatter returned by compileTemplate
\* ------------------------------------------------------------------------

\* The resolvers a caller registers under the custom names. They are the
\* caller's functions of (req, res, duration, finished): `user` reads a
\* request field, `methods` echoes the duration it is given, `pa` is a
\* constant, and `strict` refuses a connection that was closed early.
ResolverThrows(name, req, res, duration, finished) ==
    name = tStrict /\ ~finished

ResolverValue(name, req, res, duration, finished) ==
    CASE name = tUser    -> req.userId
      [] name = tMethods -> duration
      [] name = tStrict  -> << "o", "k" >>
      [] OTHER           -> << "P" >>

\* A slip of the default case: an absent resolver yields empty text.
ResolveTokenSwallow(token, customTokens, req, res, duration, finished) ==
    CASE token = tStatusCode -> [threw |-> FALSE, value |-> NumberToString(res.statusCode)]
      [] token = tDuration   -> [threw |-> FALSE, value |-> duration]
      [] token = tMethod     -> [threw |-> FALSE, value |-> req.method]
      [] token = tPath       -> [threw |-> FALSE, value |-> req.pathname]
      [] OTHER ->
            IF token \notin customTokens
            THEN [threw |-> FALSE, value |-> << >>]
            ELSE [threw |-> ResolverThrows(token, req, res, duration, finished),
                  value |-> ResolverValue(token, req, res, duration, finished)]

\* One `switch (token)` of the Formatter: what is pushed after the chunk.
\* The standard names are tested first; any other name is looked up in the
\* customTokens object as it is when the Formatter runs, and calling an
\* absent entry throws a TypeError.
ResolveToken(token, customTokens, req, res, duration, finished) ==
    CASE token = tStatusCode    -> [threw |-> FALSE, value |-> NumberToString(res.statusCode)]
      [] token = tDuration      -> [threw |-> FALSE, value |-> duration]
      [] token = tProto         -> [threw |-> FALSE,
                                    value |-> IF req.encrypted
                                              THEN << "h","t","t","p","s" >>
                                              ELSE << "h","t","t","p" >>]
      [] token = tMethod        -> [threw |-> FALSE, value |-> req.method]
      [] token = tPath          -> [threw |-> FALSE, value |-> req.pathname]
      [] token = tContentType   -> [threw |-> FALSE, value |-> res.contentType]
      [] token = tContentLength -> [threw |-> FALSE, value |-> res.contentLength]
      [] OTHER ->
            IF token \notin customTokens
               \/ ResolverThrows(token, req, res, duration, finished)
            THEN [threw |-> TRUE, value |-> UNDEFINED]
            ELSE [threw |-> FALSE,
                  value |-> ResolverValue(token, req, res, duration, finished)]

\* for (let i = 0; i < templateChunks.length; i++) { chunks.push(...); ... }
\* return chunks.join('');
RECURSIVE FormatLoop(_, _, _, _, _, _, _, _)
FormatLoop(compiled, customTokens, req, res, duration, finished, i, chunks) ==
    IF i >= Len(compiled.templateChunks)
    THEN [threw |-> FALSE, value |-> Join(chunks)]
    ELSE LET pushed == Append(chunks, At(compiled.templateChunks, i))
             token  == At(compiled.tokenList, i)
         IN  IF ~Truthy(token)
             THEN FormatLoop(compiled, customTokens, req, res, duration, finished,
                             i + 1, pushed)
             ELSE LET r == ResolveToken(token, customTokens, req, res, duration, finished)
                  IN  IF r.threw THEN [threw |-> TRUE, value |-> UNDEFINED]
                      ELSE FormatLoop(compiled, customTokens, req, res, duration,
                                      finished, i + 1, Append(pushed, r.value))

Formatter(compiled, customTokens, req, res, duration, finished) ==
    FormatLoop(compiled, customTokens, req, res, duration, finished, 0, << >>)

\* ------------------------------------------------------------------------
\* formatDuration
\* ------------------------------------------------------------------------

nanosecondsPerMillisecond == 1000000
oneMinute == 60
oneHour == 3600

RECURSIVE Pow10(_)
Pow10(k) == IF k = 0 THEN 1 ELSE 10 * Pow10(k - 1)

RECURSIVE NumDigits(_)
NumDigits(n) == IF n < 10 THEN 1 ELSE 1 + NumDigits(n \div 10)

RECURSIVE Zeros(_)
Zeros(k) == IF k <= 0 THEN << >> ELSE << "0" >> \o Zeros(k - 1)

\* (nanoseconds / nanosecondsPerMillisecond).toPrecision(6): six significant
\* digits in fixed notation (the decimal exponent of a value below 1000.00
\* and at least 0.000001 never asks for the exponential form). The quotient
\* of an integer below 10^6 by 10^6 has at most six significant digits, so
\* nothing is rounded; a longer one is rounded to the nearest, and
\* 999.9995 and above carry into "1000.00".
toPrecision6(nanoseconds) ==
    IF nanoseconds = 0 THEN << "0", "." >> \o Zeros(5)
    ELSE LET d     == NumDigits(nanoseconds)
             cut   == IF d > 6 THEN Pow10(d - 6) ELSE 1
             sig0  == IF d > 6 THEN (nanoseconds + cut \div 2) \div cut
                      ELSE nanoseconds * Pow10(6 - d)
             carry == sig0 = Pow10(6)
             sig   == NumberToString(IF carry THEN Pow10(5) ELSE sig0)
             \* value = 0.d1d2... * 10^(e + 1) milliseconds
             e     == (IF carry THEN d + 1 ELSE d)
                      - NumDigits(nanosecondsPerMillisecond)
         IN  IF e >= 0
             THEN SubSeq(sig, 1, e + 1)
                  \o (IF e + 1 < 6 THEN << "." >> \o SubSeq(sig, e + 2, 6) ELSE << >>)
             ELSE << "0", "." >> \o Zeros(-e - 1) \o sig

Milliseconds(nanoseconds) == toPrecision6(nanoseconds) \o << "m", "s" >>

\* A slip of the tier tests: `<=` for `<`.
DurationPartsOffByOne(wholeSeconds) ==
    IF wholeSeconds < 1 THEN << >>
    ELSE IF wholeSeconds <= oneMinute
    THEN << << wholeSeconds, << "s","e","c" >>, << " " >> >> >>
    ELSE << << wholeSeconds \div oneMinute, << "m","i","n" >>, << >> >>,
            << wholeSeconds % oneMinute, << "s","e","c" >>, << >> >> >>

\* The units the returned string prints before the milliseconds, in order,
\* as (number, unit, separator) triples: the text is their concatenation.
DurationParts(wholeSeconds) ==
    IF wholeSeconds < 1 THEN << >>
    ELSE IF wholeSeconds < oneMinute
    THEN << << wholeSeconds, << "s","e","c" >>, << " " >> >> >>
    ELSE IF wholeSeconds < oneHour
    THEN << << wholeSeconds \div oneMinute, << "m","i","n" >>, << >> >>,
            << wholeSeconds % oneMinute, << "s","e","c" >>, << >> >> >>
    ELSE << << wholeSeconds \div oneHour, << "h","r" >>, << >> >>,
            << (wholeSeconds % oneHour) \div oneMinute, << "m","i","n" >>, << >> >>,
            << (wholeSeconds % oneHour) % oneMinute, << "s","e","c" >>, << >> >> >>

RECURSIVE PartsText(_)
PartsText(parts) ==
    IF parts = << >> THEN << >>
    ELSE NumberToString(Head(parts)[1]) \o Head(parts)[2] \o Head(parts)[3]
         \o PartsText(Tail(parts))

formatDuration(wholeSeconds, nanoseconds) ==
    PartsText(DurationParts(wholeSeconds)) \o Milliseconds(nanoseconds)

\* ------------------------------------------------------------------------
\* process.hrtime
\* ------------------------------------------------------------------------

NanosPerSecond == 1000000000

\* process.hrtime(): the clock after one more step of elapsed time
HrAdd(t, d) ==
    LET n == t[2] + d[2]
    IN  IF n >= NanosPerSecond THEN << t[1] + d[1] + 1, n - NanosPerSecond >>
        ELSE << t[1] + d[1], n >>

\* process.hrtime(startTime): the time elapsed since startTime
hrtime(now, start) ==
    IF now[2] >= start[2] THEN << now[1] - start[1], now[2] - start[2] >>
    ELSE << now[1] - start[1] - 1, now[2] + NanosPerSecond - start[2] >>

\* ------------------------------------------------------------------------
\* Inputs
\* ------------------------------------------------------------------------

MaxPieces  == 2     \* pieces a generated template is made of, at most
MaxSeconds == 7300  \* wholeSeconds given to formatDuration, at most
MaxTicks   == 1     \* steps of the clock in one run
MaxEvents  == 3     \* 'finish'/'close' events emitted in one run

Colon(name) == << ":" >> \o name

Pieces ==
    { Colon(tMethod), Colon(tPath), Colon(tUser), Colon(tPa),
      << " " >>, << ":" >>, << "s" >> }

RECURSIVE TemplatesOf(_)
TemplatesOf(n) ==
    IF n = 0 THEN { << >> }
    ELSE LET shorter == TemplatesOf(n - 1)
         IN  shorter \cup { t \o p : t \in shorter, p \in Pieces }

\* ":method :path - :status-code in :duration"
EndToEndTemplate ==
    Colon(tMethod) \o << " " >> \o Colon(tPath) \o << " ", "-", " " >>
    \o Colon(tStatusCode) \o << " ", "i", "n", " " >> \o Colon(tDuration)

\* ":user logged in"
UserTemplate == Colon(tUser) \o << " ","l","o","g","g","e","d"," ","i","n" >>

\* ":strict :proto"
StrictTemplate == Colon(tStrict) \o << " " >> \o Colon(tProto)

Templates == TemplatesOf(MaxPieces) \cup { EndToEndTemplate, UserTemplate, StrictTemplate }

\* Object.keys(customTokens) of the maps a caller may pass, in insertion order
KeyChoices ==
    { << >>, << tUser >>, << tUser, tStrict >>, << tMethods, tPa >>, << tPath, tUser >> }

SampleReqs ==
    { [method |-> << "G","E","T" >>, pathname |-> << "/","h","e","a","l","t","h" >>,
       encrypted |-> FALSE, userId |-> << "a","b","c" >>],
      [method |-> << "P","O","S","T" >>, pathname |-> << "/" >>,
       encrypted |-> TRUE, userId |-> UNDEFINED] }

SampleRess ==
    { [statusCode |-> 200, contentType |-> << "t","e","x","t" >>,
       contentLength |-> << "1","2" >>],
      [statusCode |-> 404, contentType |-> UNDEFINED, contentLength |-> UNDEFINED] }

NanoSamples == { 0, 1, 3500000, 4567890, 500000000, 999999999 }

TickSteps == { << 0, 3500000 >>, << 59, 996500000 >>, << 3601, 0 >> }

SampleDuration == formatDuration(0, 3500000)

Requests == { "r1", "r2" }

\* the request and response objects of each tracked exchange
ReqOf(r) == CHOOSE q \in SampleReqs : q.encrypted = (r = "r2")
ResOf(r) == CHOOSE q \in SampleRess : (q.statusCode = 200) = (r = "r1")

\* The configurations requestLogger is built with. format is a template
\* string, a Formatter of the caller, or (from untyped callers) not there.
LoggerConfigs ==
    { [format |-> "template", template |-> EndToEndTemplate, customKeys |-> << >>],
      [format |-> "template", template |-> StrictTemplate, customKeys |-> << tStrict >>],
      [format |-> "function", template |-> << >>, customKeys |-> << >>],
      [format |-> "absent", template |-> << >>, customKeys |-> << >>] }

\* A Formatter the caller passes as config.format: what it returns. Being the
\* caller's code it may also throw, which the action that calls it decides.
UserFormatter(req, res, duration, finished) ==
    req.method \o << " " >> \o duration
    \o (IF finished THEN << >> ELSE << " ","a","b","o","r","t","e","d" >>)

\* ------------------------------------------------------------------------
\* State
\* ------------------------------------------------------------------------

VARIABLES
    config,        \* the RequestLoggerConfig: format, template, customKeys
    customTokens,  \* the names the customTokens object holds now (callers may delete)
    format,        \* the Formatter in use: none yet, compiled, the caller's, or absent
    output,        \* the last direct call of the compiled Formatter and its result
    clock,         \* process.hrtime(), as << seconds, nanoseconds >>
    ticks,         \* steps the clock has made
    phase,         \* per request: "idle", or "timing" once the middleware has run
    startTime,     \* per request: the hrtime captured by the middleware
    listeners,     \* per request: is onFinish / onClose registered on res
    trace,         \* per request: the events res emitted and what each did
    sinkCalls,     \* per request: the calls of config.log, in order
    durIn,         \* the pair given to formatDuration
    durOut         \* the string formatDuration returned, UNDEFINED before the call

vars == << config, customTokens, format, output, clock, ticks, phase, startTime,
           listeners, trace, sinkCalls, durIn, durOut >>

templateVars  == << config, customTokens, format, output >>
lifecycleVars == << clock, ticks, phase, startTime, listeners, trace, sinkCalls >>
durationVars  == << durIn, durOut >>

Events == { "finish", "close" }

NoFormat == [kind |-> "none", tokens |-> << >>, templateChunks |-> << >>,
             tokenList |-> << >>]
NoOutput == [called |-> FALSE, req |-> UNDEFINED, res |-> UNDEFINED,
             duration |-> UNDEFINED, finished |-> FALSE, customTokens |-> {},
             threw |-> FALSE, value |-> UNDEFINED]
StartClock == << 7, 998000000 >>

\* const format = typeof config.format === 'string'
\*     ? compileTemplate(config.format, config.customTokens) : config.format;
\* Object.keys(customTokens) is read when compileTemplate runs: the keys the
\* object holds then. `tokens` is the name list the regular expression is
\* built from.
BuildFormat(cfg, tokensNow) ==
    IF cfg.format = "template"
    THEN LET keys == SelectSeq(cfg.customKeys, LAMBDA k : k \in tokensNow)
             c    == compileTemplate(cfg.template, keys)
         IN  [kind |-> "template", tokens |-> TokenNames(keys),
              templateChunks |-> c.templateChunks, tokenList |-> c.tokenList]
    ELSE [kind |-> cfg.format, tokens |-> << >>, templateChunks |-> << >>,
          tokenList |-> << >>]

\* A variant that treats format as optional: no format, a null message.
CallFormatOptional(fmt, tokensNow, req, res, duration, finished, userThrows) ==
    IF fmt.kind = "function" /\ userThrows THEN [threw |-> TRUE, value |-> UNDEFINED]
    ELSE [threw |-> FALSE, value |-> UNDEFINED]

\* format(req, res, duration, finished) in logRequest. Calling an absent
\* format (undefined) throws a TypeError.
CallFormat(fmt, tokensNow, req, res, duration, finished, userThrows) ==
    CASE fmt.kind = "template" -> Formatter(fmt, tokensNow, req, res, duration, finished)
      [] fmt.kind = "function" ->
            IF userThrows THEN [threw |-> TRUE, value |-> UNDEFINED]
            ELSE [threw |-> FALSE, value |-> UserFormatter(req, res, duration, finished)]
      [] OTHER -> [threw |-> TRUE, value |-> UNDEFINED]

\* A slip: both listeners report a finished response.
FinishedAlways(ev) == TRUE

\* const onFinish = () => logRequest(true); const onClose = () => logRequest(false);
FinishedOf(ev) == ev = "finish"

\* A slip: only the 'finish' listener is removed.
DetachFinishOnly(ls) == [ls EXCEPT !["finish"] = FALSE]

\* res.removeListener('finish', onFinish); res.removeListener('close', onClose);
DetachBoth(ls) == [e \in Events |-> FALSE]

\* A reordering: the listeners are removed before format(...) is called.
DetachedOnThrow(ls) == [e \in DOMAIN ls |-> FALSE]

\* format(...) is called before the two removeListener calls: when it throws,
\* logRequest is left with the listeners as they were.
ListenersAfterThrow(ls) == ls

\* A reordering: config.log runs before the removeListener calls.
ListenersBeforeDetach(ls) == ls

\* The listeners registered at the moment config.log runs: the two
\* removeListener calls come before it.
ListenersAtSinkCall(ls) == DetachBoth(ls)

\* config.log(message)
SinkArgs(message, req, res, duration, finished) == << message >>

IdleLifecycle ==
    /\ clock = StartClock
    /\ ticks = 0
    /\ phase = [r \in Requests |-> "idle"]
    /\ startTime = [r \in Requests |-> << 0, 0 >>]
    /\ listeners = [r \in Requests |-> [e \in Events |-> FALSE]]
    /\ trace = [r \in Requests |-> << >>]
    /\ sinkCalls = [r \in Requests |-> << >>]

NoDuration == durIn = << 0, 0 >> /\ durOut = UNDEFINED

\* ------------------------------------------------------------------------
\* requestLogger: the middleware and the two listeners
\* ------------------------------------------------------------------------

\* requestLogger(config) has returned the middleware
Init ==
    /\ config \in LoggerConfigs
    /\ customTokens = Range(config.customKeys)
    /\ format = BuildFormat(config, customTokens)
    /\ output = NoOutput
    /\ IdleLifecycle
    /\ NoDuration

\* ({ req, res }) => { startTime = process.hrtime(); res.on(...); res.on(...) }
Middleware(r) ==
    /\ phase[r] = "idle"
    /\ phase' = [phase EXCEPT ![r] = "timing"]
    /\ startTime' = [startTime EXCEPT ![r] = clock]
    /\ listeners' = [listeners EXCEPT ![r] = [e \in Events |-> TRUE]]
    /\ UNCHANGED << clock, ticks, trace, sinkCalls, templateVars, durationVars >>

Tick(d) ==
    /\ ticks < MaxTicks
    /\ clock' = HrAdd(clock, d)
    /\ ticks' = ticks + 1
    /\ UNCHANGED << phase, startTime, listeners, trace, sinkCalls, templateVars,
                    durationVars >>

RECURSIVE SumLen(_, _)
SumLen(f, S) ==
    IF S = {} THEN 0
    ELSE LET x == CHOOSE y \in S : TRUE IN Len(f[x]) + SumLen(f, S \ {x})

\* res emits 'finish' or 'close'. A registered listener runs logRequest:
\*   duration = formatDuration(process.hrtime(startTime));
\*   message = format(req, res, duration, finished);      (may throw)
\*   removeListener x 2;  config.log(message);
\* An exception leaves logRequest at once and reaches the emitter.
Emit(r, ev) ==
    /\ phase[r] = "timing"
    /\ SumLen(trace, Requests) < MaxEvents
    /\ \E userThrows \in BOOLEAN :
        LET ran      == listeners[r][ev]
            finished == FinishedOf(ev)
            elapsed  == hrtime(clock, startTime[r])
            duration == formatDuration(elapsed[1], elapsed[2])
            result   == CallFormat(format, customTokens, ReqOf(r), ResOf(r),
                                   duration, finished, userThrows)
        IN  IF ~ran
            THEN /\ trace' = [trace EXCEPT ![r] = Append(@,
                        [event |-> ev, at |-> clock, ran |-> FALSE, threw |-> FALSE,
                         finished |-> FALSE, duration |-> UNDEFINED,
                         message |-> UNDEFINED])]
                 /\ UNCHANGED << listeners, sinkCalls >>
            ELSE IF result.threw
            THEN /\ trace' = [trace EXCEPT ![r] = Append(@,
                        [event |-> ev, at |-> clock, ran |-> TRUE, threw |-> TRUE,
                         finished |-> finished, duration |-> duration,
                         message |-> UNDEFINED])]
                 /\ listeners' = [listeners EXCEPT ![r] = ListenersAfterThrow(@)]
                 /\ UNCHANGED sinkCalls
            ELSE /\ trace' = [trace EXCEPT ![r] = Append(@,
                        [event |-> ev, at |-> clock, ran |-> TRUE, threw |-> FALSE,
                         finished |-> finished, duration |-> duration,
                         message |-> result.value])]
                 /\ listeners' = [listeners EXCEPT ![r] = DetachBoth(@)]
                 /\ sinkCalls' = [sinkCalls EXCEPT ![r] = Append(@,
                        [args |-> SinkArgs(result.value, ReqOf(r), ResOf(r),
                                           duration, finished),
                         listeners |-> ListenersAtSinkCall(listeners[r])])]
    /\ UNCHANGED << clock, ticks, phase, startTime, templateVars, durationVars >>

Next ==
    \/ \E r \in Requests : Middleware(r)
    \/ \E d \in TickSteps : Tick(d)
    \/ \E r \in Requests, ev \in Events : Emit(r, ev)

Spec == Init /\ [][Next]_vars

\* ------------------------------------------------------------------------
\* compileTemplate and its Formatter, called directly
\* ------------------------------------------------------------------------

InitTemplate ==
    /\ config \in [format : {"template"}, template : Templates, customKeys : KeyChoices]
    /\ customTokens = Range(config.customKeys)
    /\ format = NoFormat
    /\ output = NoOutput
    /\ IdleLifecycle
    /\ NoDuration

Compile ==
    /\ format.kind = "none"
    /\ format' = BuildFormat(config, customTokens)
    /\ UNCHANGED << config, customTokens, output, lifecycleVars, durationVars >>

\* the caller deletes an entry of the customTokens object it passed
DeleteResolver(name) ==
    /\ name \in customTokens
    /\ customTokens' = customTokens \ {name}
    /\ UNCHANGED << config, format, output, lifecycleVars, durationVars >>

CallFormatter(req, res, finished) ==
    /\ format.kind = "template"
    /\ LET r == Formatter(format, customTokens, req, res, SampleDuration, finished)
       IN  output' = [called |-> TRUE, req |-> req, res |-> res,
                      duration |-> SampleDuration, finished |-> finished,
                      customTokens |-> customTokens, threw |-> r.threw, value |-> r.value]
    /\ UNCHANGED << config, customTokens, format, lifecycleVars, durationVars >>

NextTemplate ==
    \/ Compile
    \/ \E name \in Range(config.customKeys) : DeleteResolver(name)
    \/ \E r \in Requests, finished \in BOOLEAN :
           CallFormatter(ReqOf(r), ResOf(r), finished)

SpecTemplate == InitTemplate /\ [][NextTemplate]_vars

\* ------------------------------------------------------------------------
\* formatDuration, called directly
\* ------------------------------------------------------------------------

InitDuration ==
    /\ config \in { c \in LoggerConfigs : c.format = "absent" }
    /\ customTokens = {}
    /\ format = NoFormat
    /\ output = NoOutput
    /\ IdleLifecycle
    /\ durIn \in (0..MaxSeconds) \X NanoSamples
    /\ durOut = UNDEFINED

CallFormatDuration ==
    /\ durOut = UNDEFINED
    /\ durOut' = formatDuration(durIn[1], durIn[2])
    /\ UNCHANGED << durIn, templateVars, lifecycleVars >>

NextDuration == CallFormatDuration

SpecDuration == InitDuration /\ [][NextDuration]_vars

\* ------------------------------------------------------------------------
\* The claims
\* ------------------------------------------------------------------------

\* the event's listener ran logRequest and format(...) returned
Returned(e) == e.ran /\ ~e.threw

ReturningEvents(r) == { i \in DOMAIN trace[r] : Returned(trace[r][i]) }

FirstReturning(r) ==
    IF ReturningEvents(r) = {} THEN 0
    ELSE CHOOSE i \in ReturningEvents(r) : \A j \in ReturningEvents(r) : i <= j

NoneRegistered(ls) == \A e \in Events : ~ls[e]
BothRegistered(ls) == \A e \in Events : ls[e]

\* C1 as stated: for every request and every sequence of 'finish' and 'close'
\* events with at least one event, the sink is invoked exactly once.
C1_ExactlyOncePerRequest ==
    \A r \in Requests : trace[r] # << >> => Len(sinkCalls[r]) = 1

\* C1, amended: for every request and every sequence of events, the sink is
\* invoked at most once; it is invoked exactly once as soon as some event's
\* Formatter call has returned (in particular by the first terminal event when
\* its Formatter call returns), by the first such event, and no later event
\* runs a listener again.
C1_SinkOncePerReturningRequest ==
    \A r \in Requests :
        /\ Len(sinkCalls[r]) <= 1
        /\ Len(sinkCalls[r]) = Cardinality(ReturningEvents(r))
        /\ (trace[r] # << >> /\ ~trace[r][1].threw) => Len(sinkCalls[r]) = 1
        /\ \A i \in ReturningEvents(r) :
               \A j \in DOMAIN trace[r] : j > i => ~trace[r][j].ran

\* a request whose first event logged and whose two later events did nothing
C1_Witness ==
    \E r \in Requests :
        /\ Len(trace[r]) >= 3
        /\ Returned(trace[r][1])
        /\ trace[r][2].event # trace[r][1].event
        /\ Len(sinkCalls[r]) = 1

ElapsedAt(r, e) == hrtime(e.at, startTime[r])

C8_DetachedByFirstEvent ==
    \A r \in Requests : trace[r] # << >> => NoneRegistered(listeners[r])

\* C8, amended: when the first terminal event whose Formatter call returns
\* fires, both listeners are detached, the detachment happens before the sink
\* is called, and from then on no listener of that request is registered, so
\* no later event runs logRequest.
C8_DetachedBeforeSinkThenAbsorbing ==
    \A r \in Requests :
        \A i \in ReturningEvents(r) :
            /\ NoneRegistered(listeners[r])
            /\ sinkCalls[r] # << >>
            /\ \A k \in DOMAIN sinkCalls[r] : NoneRegistered(sinkCalls[r][k].listeners)
            /\ \A j \in DOMAIN trace[r] : j > i => ~trace[r][j].ran

\* logged by 'finish'; the later 'close' found no listener
C8_Witness ==
    \E r \in Requests :
        /\ Len(trace[r]) >= 2
        /\ trace[r][1].event = "finish" /\ Returned(trace[r][1])
        /\ ~trace[r][2].ran
        /\ NoneRegistered(listeners[r])
        /\ NoneRegistered(sinkCalls[r][1].listeners)

InitialSplit == Split(config.template, format.tokens)

\* the recognized ':token' occurrences of the template
TokenCount == (Len(InitialSplit) - 1) \div 3

\* the k-th literal chunk (k = 1 .. TokenCount + 1) and the k-th token name
LiteralChunk(k) == InitialSplit[3 * k - 2]
TokenName(k) == InitialSplit[3 * k]

\* C4: a template with no recognized ':token' makes the Formatter return
\* exactly the template, for every input.
C4_NoTokenTemplateReturnedUnchanged ==
    (output.called /\ TokenCount = 0) =>
        ~output.threw /\ output.value = config.template

\* The template with each recognized ':token' replaced by its resolved value,
\* literals kept: the text the claim describes, from the k-th literal on.
RECURSIVE Substituted(_)
Substituted(k) ==
    IF k > TokenCount THEN LiteralChunk(k)
    ELSE LiteralChunk(k)
         \o Join(<< ResolveToken(TokenName(k), output.customTokens, output.req,
                                 output.res, output.duration, output.finished).value >>)
         \o Substituted(k + 1)

\* C5: the Formatter's output is the template with each recognized ':token'
\* replaced in place by its resolved value and every literal kept verbatim.
C5_OutputIsTemplateWithTokensReplaced ==
    (output.called /\ ~output.threw) => output.value = Substituted(1)

\* C9: compileTemplate builds one more literal chunk than token names; the
\* i-th name is the i-th recognized token, the i-th chunk is the literal
\* before it, and the last chunk is the literal after the last token.
C9_ChunksAreTheLiterals ==
    format.kind = "template" =>
        /\ Len(format.templateChunks) = Len(format.tokenList) + 1
        /\ Len(format.tokenList) = TokenCount
        /\ \A k \in 1..TokenCount : format.tokenList[k] = TokenName(k)
        /\ \A k \in 1..(TokenCount + 1) : format.templateChunks[k] = LiteralChunk(k)

\* a token of the compiled template that only the customTokens object can
\* resolve, and whose resolver was not in it when the Formatter ran
MissingResolver ==
    \E k \in DOMAIN format.tokenList :
        /\ format.tokenList[k] \notin Range(standardTokens)
        /\ format.tokenList[k] \notin output.customTokens

\* C7: a custom token the template references whose resolver is missing when
\* the Formatter is invoked makes that invocation fail: compileTemplate has
\* returned a Formatter, the call throws, and no string is returned.
C7_MissingResolverThrows ==
    (output.called /\ MissingResolver) =>
        /\ format.kind = "template"
        /\ output.threw
        /\ output.value = UNDEFINED

\* ":user ..." compiled with a resolver for user, which was then deleted
C7_Witness ==
    /\ output.called
    /\ MissingResolver
    /\ tUser \in Range(format.tokenList)
    /\ tUser \notin output.customTokens
    /\ output.threw

\* ---- formatDuration (SpecDuration) ----

Text_sec == << "s","e","c" >>
Text_min == << "m","i","n" >>
Text_hr  == << "h","r" >>

\* the seconds one printed unit stands for
UnitSeconds(unit) ==
    CASE unit = Text_sec -> 1
      [] unit = Text_min -> 60
      [] unit = Text_hr  -> 3600

RECURSIVE PartsSeconds(_)
PartsSeconds(parts) ==
    IF parts = << >> THEN 0
    ELSE Head(parts)[1] * UnitSeconds(Head(parts)[2]) + PartsSeconds(Tail(parts))

====
